---- MODULE Spec2Model ----
(***************************************************************************)
(* RajOS task management (task.c, task.h) and system timer tick (timer.c). *)
(*                                                                         *)
(* Memory is modelled at the level the C code uses it: task_heap is a byte *)
(* arena at address HEAP_ADDR, task_malloc is a bump allocator over it,    *)
(* a handle (a task_tcb_t pointer) is the address of a TCB in the arena,   *)
(* and                                                                     *)
(* every field access tcb->f is a read or write of the cell at address     *)
(* tcb + Off.f.  Arithmetic on uint32_t and on pointers is modulo 2^32: a  *)
(* 32-bit value is held as its bit pattern read in two's complement, so    *)
(* 0xFFFFFFFC is -4, Add32 is the machine's addition and Lt32, Gt32 are    *)
(* the unsigned comparisons.                                               *)
(***************************************************************************)
EXTENDS Integers, Sequences, FiniteSets, TLC

\* ------------------------------------------------------------------ types

\* uint32_t, size_t and pointers are 32 bits wide.  A value v < 2^31 is held
\* as v, a value v >= 2^31 as v - 2^32 (the same 32 bits)
INT32_MAX == 2147483647

\* a + b modulo 2^32
Add32(a, b) ==
    IF a >= 0 /\ b >= 0 /\ a > INT32_MAX - b
    THEN (a - INT32_MAX - 1) + (b - INT32_MAX - 1)
    ELSE IF a < 0 /\ b < 0 /\ a < (-INT32_MAX - 1) - b
    THEN (a + INT32_MAX + 1) + (b + INT32_MAX + 1)
    ELSE a + b

\* a < b and a > b on uint32_t
Lt32(a, b) ==
    IF (a < 0) = (b < 0) THEN a < b ELSE b < 0

Gt32(a, b) ==
    Lt32(b, a)

\* a * b modulo 2^32, b held as itself (0 <= b < 2^31)
RECURSIVE Mul32(_, _)
Mul32(a, b) ==
    IF b = 0 THEN 0
    ELSE Add32(IF b % 2 = 1 THEN a ELSE 0, Mul32(Add32(a, a), b \div 2))

\* a / d on uint32_t, d held as itself (1 < d < 2^31): a value held as a
\* negative number is 2^31 + y with y = a - (-2^31)
Div32(a, d) ==
    IF a >= 0 THEN a \div d
    ELSE LET y == (a + INT32_MAX) + 1
             q == INT32_MAX \div d
             r == (INT32_MAX % d) + 1
         IN  q + (y \div d) + ((r + (y % d)) \div d)

NULL == 0

\* task_state_t
TASK_STATE_INVALID == 0
TASK_STATE_READY == 1
TASK_STATE_RUNNING == 2
TASK_STATE_BLOCKED == 3
TASK_STATE_SLEEPING == 4
TASK_STATE_SUSPENDED == 5

\* task_priority_t
TASK_PRIORITY_IDLE == 0
TASK_PRIORITY_LOW == 1
TASK_PRIORITY_NORMAL == 2
TASK_PRIORITY_HIGH == 3
TASK_PRIORITY_CRITICAL == 4
TASK_PRIORITY_MAX == 5

\* task configuration
TASK_MIN_STACK_SIZE == 512
TASK_DEFAULT_STACK_SIZE == 1024
TASK_MAX_NAME_LENGTH == 15

\* char name[16]
NAME_FIELD_SIZE == 16

\* sizeof(task_heap)
HEAP_SIZE == 32768

\* &task_heap[0]: the address the linker gives the arena (any nonzero
\* word-aligned address; NULL is address 0)
HEAP_ADDR == 65536

\* sizeof(task_tcb_t) and the field offsets, for the build's ABI
\* (arm-none-eabi: 4-byte int and pointers, 1-byte enums, natural alignment)
TCB_SIZE == 64

Off ==
    [task_id |-> 0, name |-> 4, state |-> 20, priority |-> 21,
     stack_ptr |-> 24, stack_start |-> 28, stack_size |-> 32,
     entry_point |-> 36, wake_time |-> 40, time_slice |-> 44,
     time_used |-> 48, next |-> 52, context_switches |-> 56,
     total_runtime |-> 60]

\* timer.h; timer_frequency_hz after kernel_init has called
\* timer_init(TIMER_DEFAULT_FREQUENCY_HZ)
TIMER_DEFAULT_FREQUENCY_HZ == 1000

timer_frequency_hz == TIMER_DEFAULT_FREQUENCY_HZ

\* the address of a task function (demo_task_1 of kernel.c)
demo_task_1 == 4097

\* ----------------------------------------------------------------- bounds

\* TCBs a run lets task_create allocate (calls that reach task_malloc)
MaxTcbs == 2
\* timer interrupts in one run
MaxTicks == 1
\* largest wake_time a run lets task_sleep reach
MaxWake == 1

\* ----------------------------------------------------------------- inputs

\* the string literals callers pass as name (a pointer is an index here,
\* NULL is 0): "", "A", the 16 characters "DemoTask12345678"
Strings ==
    << <<>>,
       <<65>>,
       <<68, 101, 109, 111, 84, 97, 115, 107, 49, 50, 51, 52, 53, 54, 55, 56>> >>

\* 0xFFFFFFFC, the largest word-aligned stack_size
WRAP_STACK_SIZE == -4

\* the stack size of which, with its TCB, exactly two fit the arena
HALF_ARENA_STACK_SIZE == HEAP_SIZE \div 2 - TCB_SIZE

\* the calls of task_create the model makes: two that succeed while the
\* arena has room, one with each invalid argument, one whose stack never
\* fits, one whose size makes heap_ptr + size wrap
CreateInputs ==
    { [name |-> 3, entry_point |-> demo_task_1,
       priority |-> TASK_PRIORITY_NORMAL, stack_size |-> HALF_ARENA_STACK_SIZE],
      [name |-> 1, entry_point |-> demo_task_1,
       priority |-> TASK_PRIORITY_HIGH, stack_size |-> HALF_ARENA_STACK_SIZE],
      [name |-> NULL, entry_point |-> demo_task_1,
       priority |-> TASK_PRIORITY_NORMAL, stack_size |-> TASK_DEFAULT_STACK_SIZE],
      [name |-> 2, entry_point |-> NULL,
       priority |-> TASK_PRIORITY_NORMAL, stack_size |-> TASK_DEFAULT_STACK_SIZE],
      [name |-> 2, entry_point |-> demo_task_1,
       priority |-> TASK_PRIORITY_NORMAL, stack_size |-> TASK_MIN_STACK_SIZE - 1],
      [name |-> 2, entry_point |-> demo_task_1,
       priority |-> TASK_PRIORITY_LOW, stack_size |-> HEAP_SIZE],
      [name |-> 2, entry_point |-> demo_task_1,
       priority |-> TASK_PRIORITY_MAX, stack_size |-> WRAP_STACK_SIZE] }

\* 0xFFFFFBB8: the stack_size with which heap_ptr + size wraps and the
\* initial frame of a task created after one default-size task ends on the
\* next field of that first task
LINK_WRAP_STACK_SIZE ==
    -(TASK_DEFAULT_STACK_SIZE + 2 * TCB_SIZE - Off.next - 4)

\* the calls of task_create made where only creates and deletes are
\* followed: two default-size tasks, one of the smallest size and with the
\* last enumerator of task_priority_t, one rejected, one whose size wraps
ListCreateInputs ==
    { [name |-> 1, entry_point |-> demo_task_1,
       priority |-> TASK_PRIORITY_NORMAL, stack_size |-> TASK_DEFAULT_STACK_SIZE],
      [name |-> 2, entry_point |-> demo_task_1,
       priority |-> TASK_PRIORITY_HIGH, stack_size |-> TASK_DEFAULT_STACK_SIZE],
      [name |-> 2, entry_point |-> demo_task_1,
       priority |-> TASK_PRIORITY_MAX, stack_size |-> TASK_MIN_STACK_SIZE],
      [name |-> 2, entry_point |-> NULL,
       priority |-> TASK_PRIORITY_LOW, stack_size |-> TASK_MIN_STACK_SIZE],
      [name |-> 3, entry_point |-> demo_task_1,
       priority |-> TASK_PRIORITY_NORMAL, stack_size |-> LINK_WRAP_STACK_SIZE] }

\* the calls of task_sleep the model makes: task_sleep(0) and the longest
\* sleep the run allows
SleepInputs == {0, MaxWake}

\* ------------------------------------------------------------------ state

VARIABLES
    mem,            \* memory cells written so far: address -> value
    heap_ptr,       \* static uint32_t heap_ptr
    next_task_id,   \* static uint32_t next_task_id
    task_list,      \* static task_tcb_t *task_list
    current_task,   \* static task_tcb_t *current_task
    timer_ticks,    \* static uint32_t timer_ticks
    created,        \* the handles task_create has returned, oldest first
    ntcb,           \* TCBs allocated so far (task_malloc(sizeof(task_tcb_t)) calls)
    last,           \* the last call: its name, argument, result
    run             \* the call in progress when calls run statement by statement

vars ==
    <<mem, heap_ptr, next_task_id, task_list, current_task, timer_ticks,
      created, ntcb, last, run>>

\* what the kernel itself holds (everything but the record of the last call)
kernel ==
    <<mem, heap_ptr, next_task_id, task_list, current_task, timer_ticks,
      created>>

\* ----------------------------------------------------------------- memory

\* task_heap is static, so zero before its first write
ZeroName == [k \in 1..NAME_FIELD_SIZE |-> 0]

Rd(m, a) ==
    IF a \in DOMAIN m THEN m[a] ELSE 0

RdName(m, a) ==
    IF a \in DOMAIN m THEN m[a] ELSE ZeroName

Wr(m, a, v) ==
    [x \in (DOMAIN m) \cup {a} |-> IF x = a THEN v ELSE m[x]]

\* tcb->f
Field(m, tcb, f) ==
    Rd(m, tcb + Off[f])

\* the handles callers hold
Handles == {created[i] : i \in 1..Len(created)}

\* the call record: op(arg) returned ret; pre is the state field of the task
\* argument (of the current task for task_sleep and task_yield) at the call
Call(op, arg, ret, pre) ==
    [op |-> op, arg |-> arg, ret |-> ret, pre |-> pre]

\* ------------------------------------------------------- string function

Min(a, b) ==
    IF a < b THEN a ELSE b

\* a copy whose loop runs while i <= n instead of i < n
strncpy_safe_one_more(dest, src, n) ==
    LET i == Min(n + 1, Len(src))
    IN  [k \in 1..NAME_FIELD_SIZE |->
            IF k <= i THEN src[k]
            ELSE IF k = i + 1 /\ i < n THEN 0
            ELSE dest[k]]

\* strncpy_safe(dest, src, n): dest afterwards.  src is the characters before
\* its terminating NUL; the loop stops at i = Min(n, strlen(src))
strncpy_safe(dest, src, n) ==
    LET i == Min(n, Len(src))
    IN  [k \in 1..NAME_FIELD_SIZE |->
            IF k <= i THEN src[k]
            ELSE IF k = i + 1 /\ i < n THEN 0
            ELSE dest[k]]

\* -------------------------------------------------------------- allocator

\* task_malloc(size) with heap_ptr = hp: the pointer returned and heap_ptr
\* afterwards.  heap_ptr + size is a uint32_t sum
task_malloc(hp, size) ==
    IF Gt32(Add32(hp, size), HEAP_SIZE)
    THEN [ptr |-> NULL, heap_ptr |-> hp]
    ELSE [ptr |-> HEAP_ADDR + hp, heap_ptr |-> Add32(hp, size)]

\* ------------------------------------------------------------ task_create

\* a validation that forgets the stack-size floor
InvalidArgs_no_floor(name, entry_point, stack_size) ==
    entry_point = NULL \/ name = NULL

\* the parameter validation of task_create
InvalidArgs(name, entry_point, stack_size) ==
    entry_point = NULL \/ name = NULL \/ Lt32(stack_size, TASK_MIN_STACK_SIZE)

\* an id counter that is read but never advanced
NextId_same(id) ==
    id

\* next_task_id++ : the value next_task_id holds afterwards
NextId(id) ==
    Add32(id, 1)

\* the initial context task_create stores at stack_ptr[0], stack_ptr[-1], ...,
\* stack_ptr[-7]: xPSR 0x01000000, PC, LR 0xFFFFFFFD, R12, R3, R2, R1, R0
InitialFrame(entry_point) ==
    <<16777216, entry_point, -3, 0, 0, 0, 0, 0>>

\* tcb->stack_ptr[-(k-1)] = frame[k] for k = k..8, each store through the
\* stack_ptr field as memory holds it at that moment
RECURSIVE StoreFrame(_, _, _, _)
StoreFrame(m, tcb, frame, k) ==
    IF k > Len(frame) THEN m
    ELSE StoreFrame(
            Wr(m, Add32(Field(m, tcb, "stack_ptr"), -4 * (k - 1)), frame[k]),
            tcb, frame, k + 1)

\* memory after the body of task_create (lines 92-126) has initialised tcb
InitTcb(m, tcb, stack, name, entry_point, priority, stack_size) ==
    LET m1 == Wr(m, tcb + Off.task_id, next_task_id)
        m2 == Wr(m1, tcb + Off.name,
                 strncpy_safe(RdName(m1, tcb + Off.name), Strings[name],
                              TASK_MAX_NAME_LENGTH))
        m3 == Wr(m2, tcb + Off.state, TASK_STATE_READY)
        m4 == Wr(m3, tcb + Off.priority, priority)
        m5 == Wr(m4, tcb + Off.entry_point, entry_point)
        m6 == Wr(m5, tcb + Off.stack_start, stack)
        m7 == Wr(m6, tcb + Off.stack_size, stack_size)
        m8 == Wr(m7, tcb + Off.stack_ptr,
                 Add32(Add32(stack, 4 * (stack_size \div 4)), -4))
        m9 == Wr(m8, tcb + Off.wake_time, 0)
        m10 == Wr(m9, tcb + Off.time_slice, 10)
        m11 == Wr(m10, tcb + Off.time_used, 0)
        m12 == Wr(m11, tcb + Off.context_switches, 0)
        m13 == Wr(m12, tcb + Off.total_runtime, 0)
        m14 == StoreFrame(m13, tcb, InitialFrame(entry_point), 1)
        m15 == Wr(m14, tcb + Off.stack_ptr,
                  Add32(Field(m14, tcb, "stack_ptr"), -28))
    IN  Wr(m15, tcb + Off.next, task_list)

task_create(name, entry_point, priority, stack_size) ==
    LET arg == [name |-> name, entry_point |-> entry_point,
                priority |-> priority, stack_size |-> stack_size]
        a1 == task_malloc(heap_ptr, TCB_SIZE)
        tcb == a1.ptr
        a2 == task_malloc(a1.heap_ptr, stack_size)
        stack == a2.ptr
    IN  /\ UNCHANGED <<current_task, timer_ticks, run>>
        /\ IF InvalidArgs(name, entry_point, stack_size)
           THEN /\ last' = Call("task_create", arg, NULL, 0)
                /\ UNCHANGED <<mem, heap_ptr, next_task_id, task_list, created,
                               ntcb>>
           ELSE IF tcb = NULL
           THEN /\ last' = Call("task_create", arg, NULL, 0)
                /\ UNCHANGED <<mem, heap_ptr, next_task_id, task_list, created,
                               ntcb>>
           ELSE IF stack = NULL
           THEN /\ ntcb < MaxTcbs
                /\ ntcb' = ntcb + 1
                /\ heap_ptr' = a1.heap_ptr
                /\ last' = Call("task_create", arg, NULL, 0)
                /\ UNCHANGED <<mem, next_task_id, task_list, created>>
           ELSE /\ ntcb < MaxTcbs
                /\ ntcb' = ntcb + 1
                /\ heap_ptr' = a2.heap_ptr
                /\ next_task_id' = NextId(next_task_id)
                /\ mem' = InitTcb(mem, tcb, stack, name, entry_point, priority,
                                  stack_size)
                /\ task_list' = tcb
                /\ created' = Append(created, tcb)
                /\ last' = Call("task_create", arg, tcb, 0)

\* ------------------------------------------------------------ task_delete

\* the loop of task_delete: from prev, the first node whose next is task, or
\* NULL at the end of the list.  fuel bounds the walk by the number of TCBs
RECURSIVE FindPrev(_, _, _, _)
FindPrev(m, prev, task, fuel) ==
    IF prev = NULL \/ fuel = 0 THEN NULL
    ELSE IF Field(m, prev, "next") = task THEN prev
    ELSE FindPrev(m, Field(m, prev, "next"), task, fuel - 1)

\* a delete that unlinks the task but forgets to mark it invalid
DeleteMem_no_mark(m, task) ==
    LET prev == FindPrev(m, task_list, task, Len(created))
    IN  IF task_list # task /\ prev # NULL
        THEN Wr(m, prev + Off.next, Field(m, task, "next"))
        ELSE m

\* memory after task_delete(task), task not NULL: the unlink of a task that
\* is not the head, then task->state = TASK_STATE_INVALID
DeleteMem(m, task) ==
    LET prev == FindPrev(m, task_list, task, Len(created))
        m1 == IF task_list # task /\ prev # NULL
              THEN Wr(m, prev + Off.next, Field(m, task, "next"))
              ELSE m
    IN  Wr(m1, task + Off.state, TASK_STATE_INVALID)

\* a delete that moves the list head without testing that task is the head
DeleteList_head(m, task) ==
    Field(m, task, "next")

\* task_list after task_delete(task), task not NULL
DeleteList(m, task) ==
    IF task_list = task THEN Field(m, task, "next") ELSE task_list

task_delete(task) ==
    /\ last' = Call("task_delete", task, NULL,
                    IF task = NULL THEN 0 ELSE Field(mem, task, "state"))
    /\ UNCHANGED <<heap_ptr, next_task_id, current_task, timer_ticks, created,
                   ntcb, run>>
    /\ IF task = NULL
       THEN UNCHANGED <<mem, task_list>>
       ELSE /\ task_list' = DeleteList(mem, task)
            /\ mem' = DeleteMem(mem, task)

\* ---------------------------------------------- task_suspend, task_resume

\* a suspend that also takes a READY task, not only a RUNNING one
task_suspend_ready(task) ==
    /\ last' = Call("task_suspend", task, NULL,
                    IF task = NULL THEN 0 ELSE Field(mem, task, "state"))
    /\ UNCHANGED <<heap_ptr, next_task_id, task_list, current_task,
                   timer_ticks, created, ntcb, run>>
    /\ IF task = NULL \/ Field(mem, task, "state") = TASK_STATE_INVALID
       THEN UNCHANGED mem
       ELSE IF Field(mem, task, "state") \in {TASK_STATE_RUNNING,
                                               TASK_STATE_READY}
       THEN mem' = Wr(mem, task + Off.state, TASK_STATE_SUSPENDED)
       ELSE UNCHANGED mem

task_suspend(task) ==
    /\ last' = Call("task_suspend", task, NULL,
                    IF task = NULL THEN 0 ELSE Field(mem, task, "state"))
    /\ UNCHANGED <<heap_ptr, next_task_id, task_list, current_task,
                   timer_ticks, created, ntcb, run>>
    /\ IF task = NULL \/ Field(mem, task, "state") = TASK_STATE_INVALID
       THEN UNCHANGED mem
       ELSE IF Field(mem, task, "state") = TASK_STATE_RUNNING
       THEN mem' = Wr(mem, task + Off.state, TASK_STATE_SUSPENDED)
       ELSE UNCHANGED mem

task_resume(task) ==
    /\ last' = Call("task_resume", task, NULL,
                    IF task = NULL THEN 0 ELSE Field(mem, task, "state"))
    /\ UNCHANGED <<heap_ptr, next_task_id, task_list, current_task,
                   timer_ticks, created, ntcb, run>>
    /\ IF task = NULL \/ Field(mem, task, "state") # TASK_STATE_SUSPENDED
       THEN UNCHANGED mem
       ELSE mem' = Wr(mem, task + Off.state, TASK_STATE_READY)

\* ------------------------------------------------- task_sleep, task_yield

task_sleep(milliseconds) ==
    /\ last' = Call("task_sleep", milliseconds, NULL,
                    IF current_task = NULL THEN 0
                    ELSE Field(mem, current_task, "state"))
    /\ UNCHANGED <<heap_ptr, next_task_id, task_list, current_task,
                   timer_ticks, created, ntcb, run>>
    /\ IF current_task = NULL
       THEN UNCHANGED mem
       ELSE /\ Field(mem, current_task, "wake_time") + milliseconds <= MaxWake
            /\ mem' = Wr(Wr(mem, current_task + Off.state, TASK_STATE_SLEEPING),
                         current_task + Off.wake_time,
                         Add32(Field(mem, current_task, "wake_time"), milliseconds))

\* a yield that stores READY into the byte after the state field, priority
task_yield_wrong_field ==
    /\ last' = Call("task_yield", NULL, NULL,
                    IF current_task = NULL THEN 0
                    ELSE Field(mem, current_task, "state"))
    /\ UNCHANGED <<heap_ptr, next_task_id, task_list, current_task,
                   timer_ticks, created, ntcb, run>>
    /\ IF current_task = NULL
       THEN UNCHANGED mem
       ELSE mem' = Wr(mem, current_task + Off.priority, TASK_STATE_READY)

task_yield ==
    /\ last' = Call("task_yield", NULL, NULL,
                    IF current_task = NULL THEN 0
                    ELSE Field(mem, current_task, "state"))
    /\ UNCHANGED <<heap_ptr, next_task_id, task_list, current_task,
                   timer_ticks, created, ntcb, run>>
    /\ IF current_task = NULL
       THEN UNCHANGED mem
       ELSE mem' = Wr(mem, current_task + Off.state, TASK_STATE_READY)

\* ---------------------------------------------------------------- queries

\* the values the query functions return in the present state
get_state(task) ==
    IF task # NULL THEN Field(mem, task, "state") ELSE TASK_STATE_INVALID

get_priority(task) ==
    IF task # NULL THEN Field(mem, task, "priority") ELSE TASK_PRIORITY_IDLE

get_id(task) ==
    IF task # NULL THEN Field(mem, task, "task_id") ELSE 0

\* a state query that wakes a sleeping task whose wake_time has passed
task_get_state_waking(task) ==
    /\ last' = Call("task_get_state", task, get_state(task), get_state(task))
    /\ UNCHANGED <<heap_ptr, next_task_id, task_list, current_task,
                   timer_ticks, created, ntcb, run>>
    /\ IF task # NULL /\ Field(mem, task, "state") = TASK_STATE_SLEEPING
                      /\ ~Lt32(timer_ticks, Field(mem, task, "wake_time"))
       THEN mem' = Wr(mem, task + Off.state, TASK_STATE_READY)
       ELSE UNCHANGED mem

task_get_state(task) ==
    /\ last' = Call("task_get_state", task, get_state(task), get_state(task))
    /\ UNCHANGED <<mem, heap_ptr, next_task_id, task_list, current_task,
                   timer_ticks, created, ntcb, run>>

task_get_priority(task) ==
    /\ last' = Call("task_get_priority", task, get_priority(task), get_state(task))
    /\ UNCHANGED <<mem, heap_ptr, next_task_id, task_list, current_task,
                   timer_ticks, created, ntcb, run>>

task_get_id(task) ==
    /\ last' = Call("task_get_id", task, get_id(task), get_state(task))
    /\ UNCHANGED <<mem, heap_ptr, next_task_id, task_list, current_task,
                   timer_ticks, created, ntcb, run>>

task_get_current ==
    /\ last' = Call("task_get_current", NULL, current_task, 0)
    /\ UNCHANGED <<mem, heap_ptr, next_task_id, task_list, current_task,
                   timer_ticks, created, ntcb, run>>

\* a task_set_current that also marks the task it selects as running
task_set_current_running(task) ==
    /\ current_task' = task
    /\ last' = Call("task_set_current", task, NULL,
                    IF task = NULL THEN 0 ELSE Field(mem, task, "state"))
    /\ mem' = IF task = NULL THEN mem
              ELSE Wr(mem, task + Off.state, TASK_STATE_RUNNING)
    /\ UNCHANGED <<heap_ptr, next_task_id, task_list, timer_ticks,
                   created, ntcb, run>>

task_set_current(task) ==
    /\ current_task' = task
    /\ last' = Call("task_set_current", task, NULL,
                    IF task = NULL THEN 0 ELSE Field(mem, task, "state"))
    /\ UNCHANGED <<mem, heap_ptr, next_task_id, task_list, timer_ticks,
                   created, ntcb, run>>

\* ------------------------------------------------------------------ timer

\* uint32_t timer_get_ticks(void)
timer_get_ticks ==
    /\ last' = Call("timer_get_ticks", NULL, timer_ticks, 0)
    /\ UNCHANGED <<mem, heap_ptr, next_task_id, task_list, current_task,
                   timer_ticks, created, ntcb, run>>

\* a tick counted twice, in the handler and in the callback
timer_tick_callback_twice ==
    /\ timer_ticks < MaxTicks
    /\ timer_ticks' = Add32(timer_ticks, 2)
    /\ last' = Call("timer_tick_callback", NULL, NULL, 0)
    /\ UNCHANGED <<mem, heap_ptr, next_task_id, task_list, current_task,
                   created, ntcb, run>>

\* a tick that also picks the task to run: the head of the task list
timer_tick_callback_selects ==
    /\ timer_ticks < MaxTicks
    /\ timer_ticks' = Add32(timer_ticks, 1)
    /\ current_task' = task_list
    /\ last' = Call("timer_tick_callback", NULL, NULL, 0)
    /\ UNCHANGED <<mem, heap_ptr, next_task_id, task_list, created, ntcb, run>>

\* SysTick_Handler: bl timer_tick_callback
timer_tick_callback ==
    /\ timer_ticks < MaxTicks
    /\ timer_ticks' = Add32(timer_ticks, 1)
    /\ last' = Call("timer_tick_callback", NULL, NULL, 0)
    /\ UNCHANGED <<mem, heap_ptr, next_task_id, task_list, current_task,
                   created, ntcb, run>>

\* ------------------------------------------- calls, statement by statement

\* The task functions once more, one statement of test_minimal.c at a time,
\* so that a timer interrupt can fall between any two statements.  run.pc is
\* the line of the statement to execute next, 0 when no call is in progress;
\* run.tcb, run.stack and run.prev are the locals; run.expect is what the
\* call leaves when nothing interrupts it, taken at the call.

NoCall ==
    [pc |-> 0, op |-> "", arg |-> NULL, tcb |-> NULL,
     stack |-> NULL, prev |-> NULL, ret |-> NULL, ticks |-> 0, expect |-> 0,
     start_ticks |-> 0, target_ticks |-> 0]

\* what the statements read and write
Regs ==
    [mem |-> mem, heap_ptr |-> heap_ptr, next_task_id |-> next_task_id,
     task_list |-> task_list, current_task |-> current_task,
     timer_ticks |-> timer_ticks, ntcb |-> ntcb, run |-> run]

\* the line at which each function returns
ReturnLine ==
    [task_create |-> 131, task_delete |-> 159, task_suspend |-> 172,
     task_resume |-> 183, task_sleep |-> 199, task_yield |-> 213,
     timer_delay_ms |-> 93]

\* the statements of task_create that follow one another unconditionally,
\* lines 93 to 131
CreateLines ==
    <<93, 94, 96, 97, 98, 100, 101, 102, 104, 105, 106, 107, 108,
      112, 113, 114, 115, 116, 117, 118, 119, 122, 125, 126, 131>>

\* the line after line pc in CreateLines
NextCreateLine(pc) ==
    CreateLines[1 + CHOOSE i \in 1..Len(CreateLines) - 1 : CreateLines[i] = pc]

\* k after the statement of task_create at line k.run.pc
ExecCreate(k) ==
    LET r == k.run
        c == r.arg
        tcb == r.tcb
        sp == Field(k.mem, tcb, "stack_ptr")
        goto(pc) == [k EXCEPT !.run.pc = pc]
        store(a, v) == [k EXCEPT !.mem = Wr(k.mem, a, v),
                                 !.run.pc = NextCreateLine(r.pc)]
    IN  CASE r.pc = 73 ->
               IF c.entry_point = NULL \/ c.name = NULL
                  \/ Lt32(c.stack_size, TASK_MIN_STACK_SIZE)
               THEN [k EXCEPT !.run.ret = NULL, !.run.pc = 131]
               ELSE goto(79)
          [] r.pc = 79 ->
               LET a == task_malloc(k.heap_ptr, TCB_SIZE)
               IN  [k EXCEPT !.heap_ptr = a.heap_ptr, !.run.tcb = a.ptr,
                             !.ntcb = IF a.ptr = NULL THEN @ ELSE @ + 1,
                             !.run.pc = 80]
          [] r.pc = 80 ->
               IF tcb = NULL
               THEN [k EXCEPT !.run.ret = NULL, !.run.pc = 131]
               ELSE goto(86)
          [] r.pc = 86 ->
               LET a == task_malloc(k.heap_ptr, c.stack_size)
               IN  [k EXCEPT !.heap_ptr = a.heap_ptr, !.run.stack = a.ptr,
                             !.run.pc = 87]
          [] r.pc = 87 ->
               IF r.stack = NULL
               THEN [k EXCEPT !.run.ret = NULL, !.run.pc = 131]
               ELSE goto(93)
          [] r.pc = 93 ->
               [k EXCEPT !.mem = Wr(k.mem, tcb + Off.task_id, k.next_task_id),
                         !.next_task_id = Add32(k.next_task_id, 1),
                         !.run.pc = 94]
          [] r.pc = 94 ->
               store(tcb + Off.name,
                     strncpy_safe(RdName(k.mem, tcb + Off.name),
                                  Strings[c.name], TASK_MAX_NAME_LENGTH))
          [] r.pc = 96 -> store(tcb + Off.state, TASK_STATE_READY)
          [] r.pc = 97 -> store(tcb + Off.priority, c.priority)
          [] r.pc = 98 -> store(tcb + Off.entry_point, c.entry_point)
          [] r.pc = 100 -> store(tcb + Off.stack_start, r.stack)
          [] r.pc = 101 -> store(tcb + Off.stack_size, c.stack_size)
          [] r.pc = 102 ->
               store(tcb + Off.stack_ptr,
                     Add32(Add32(r.stack, 4 * (c.stack_size \div 4)), -4))
          [] r.pc = 104 -> store(tcb + Off.wake_time, 0)
          [] r.pc = 105 -> store(tcb + Off.time_slice, 10)
          [] r.pc = 106 -> store(tcb + Off.time_used, 0)
          [] r.pc = 107 -> store(tcb + Off.context_switches, 0)
          [] r.pc = 108 -> store(tcb + Off.total_runtime, 0)
          [] r.pc = 112 -> store(sp, 16777216)
          [] r.pc = 113 -> store(Add32(sp, -4), c.entry_point)
          [] r.pc = 114 -> store(Add32(sp, -8), -3)
          [] r.pc \in 115..119 -> store(Add32(sp, -4 * (r.pc - 112)), 0)
          [] r.pc = 122 -> store(tcb + Off.stack_ptr, Add32(sp, -28))
          [] r.pc = 125 -> store(tcb + Off.next, k.task_list)
          [] r.pc = 126 ->
               [k EXCEPT !.task_list = tcb, !.run.ret = tcb, !.run.pc = 131]

\* k after the statement of task_delete at line k.run.pc
ExecDelete(k) ==
    LET r == k.run
        task == r.arg
        goto(pc) == [k EXCEPT !.run.pc = pc]
    IN  CASE r.pc = 139 -> IF task = NULL THEN goto(159) ELSE goto(142)
          [] r.pc = 142 -> IF k.task_list = task THEN goto(143) ELSE goto(145)
          [] r.pc = 143 ->
               [k EXCEPT !.task_list = Field(k.mem, task, "next"),
                         !.run.pc = 158]
          [] r.pc = 145 -> [k EXCEPT !.run.prev = k.task_list, !.run.pc = 146]
          [] r.pc = 146 ->
               IF r.prev # NULL /\ Field(k.mem, r.prev, "next") # task
               THEN goto(147)
               ELSE goto(149)
          [] r.pc = 147 ->
               [k EXCEPT !.run.prev = Field(k.mem, r.prev, "next"),
                         !.run.pc = 146]
          [] r.pc = 149 -> IF r.prev # NULL THEN goto(150) ELSE goto(158)
          [] r.pc = 150 ->
               [k EXCEPT !.mem = Wr(k.mem, r.prev + Off.next,
                                    Field(k.mem, task, "next")),
                         !.run.pc = 158]
          [] r.pc = 158 ->
               [k EXCEPT !.mem = Wr(k.mem, task + Off.state, TASK_STATE_INVALID),
                         !.run.pc = 159]

\* k after the statement of task_suspend, task_resume, task_sleep or
\* task_yield at line k.run.pc
ExecState(k) ==
    LET r == k.run
        task == r.arg
        cur == k.current_task
        goto(pc) == [k EXCEPT !.run.pc = pc]
        store(a, v, pc) == [k EXCEPT !.mem = Wr(k.mem, a, v), !.run.pc = pc]
    IN  CASE r.pc = 166 ->
               IF task = NULL \/ Field(k.mem, task, "state") = TASK_STATE_INVALID
               THEN goto(172)
               ELSE goto(168)
          [] r.pc = 168 ->
               IF Field(k.mem, task, "state") = TASK_STATE_RUNNING
               THEN goto(169)
               ELSE goto(172)
          [] r.pc = 169 -> store(task + Off.state, TASK_STATE_SUSPENDED, 172)
          [] r.pc = 179 ->
               IF task = NULL \/ Field(k.mem, task, "state") # TASK_STATE_SUSPENDED
               THEN goto(183)
               ELSE goto(181)
          [] r.pc = 181 -> store(task + Off.state, TASK_STATE_READY, 183)
          [] r.pc = 190 -> IF cur = NULL THEN goto(199) ELSE goto(192)
          [] r.pc = 192 -> store(cur + Off.state, TASK_STATE_SLEEPING, 193)
          [] r.pc = 193 ->
               store(cur + Off.wake_time,
                     Add32(Field(k.mem, cur, "wake_time"), r.arg), 199)
          [] r.pc = 206 -> IF cur = NULL THEN goto(213) ELSE goto(212)
          [] r.pc = 212 -> store(cur + Off.state, TASK_STATE_READY, 213)

\* k after the statement of timer_delay_ms at line k.run.pc of timer.c; the
\* wfi of line 91 returns at once when an interrupt is already pending
ExecDelay(k) ==
    LET r == k.run
    IN  CASE r.pc = 86 ->
               [k EXCEPT !.run.start_ticks = k.timer_ticks, !.run.pc = 87]
          [] r.pc = 87 ->
               [k EXCEPT !.run.target_ticks =
                             Add32(r.start_ticks,
                                   Div32(Mul32(r.arg, timer_frequency_hz),
                                         1000)),
                         !.run.pc = 89]
          [] r.pc = 89 ->
               IF Lt32(k.timer_ticks, r.target_ticks)
               THEN [k EXCEPT !.run.pc = 91]
               ELSE [k EXCEPT !.run.pc = 93]
          [] r.pc = 91 -> [k EXCEPT !.run.pc = 89]

\* k after the statement at line k.run.pc
Exec(k) ==
    IF k.run.op = "task_create" THEN ExecCreate(k)
    ELSE IF k.run.op = "task_delete" THEN ExecDelete(k)
    ELSE IF k.run.op = "timer_delay_ms" THEN ExecDelay(k)
    ELSE ExecState(k)

\* what the functions write, as one value
Written(m, hp, id, list, ret) ==
    [mem |-> m, heap_ptr |-> hp, next_task_id |-> id, task_list |-> list,
     ret |-> ret]

\* what a call of op(arg) made now leaves when it runs to its return without
\* interruption: the functions of the sections above
Uninterrupted(op, arg) ==
    LET same(m) == Written(m, heap_ptr, next_task_id, task_list, NULL)
        st(t) == Field(mem, t, "state")
        a1 == task_malloc(heap_ptr, TCB_SIZE)
        a2 == task_malloc(a1.heap_ptr, arg.stack_size)
    IN  CASE op = "task_create" ->
               IF InvalidArgs(arg.name, arg.entry_point, arg.stack_size)
                  \/ a1.ptr = NULL
               THEN same(mem)
               ELSE IF a2.ptr = NULL
               THEN Written(mem, a1.heap_ptr, next_task_id, task_list, NULL)
               ELSE Written(InitTcb(mem, a1.ptr, a2.ptr, arg.name,
                                    arg.entry_point, arg.priority,
                                    arg.stack_size),
                            a2.heap_ptr, NextId(next_task_id), a1.ptr, a1.ptr)
          [] op = "task_delete" ->
               IF arg = NULL THEN same(mem)
               ELSE Written(DeleteMem(mem, arg), heap_ptr, next_task_id,
                            DeleteList(mem, arg), NULL)
          [] op = "task_suspend" ->
               IF arg # NULL /\ st(arg) = TASK_STATE_RUNNING
               THEN same(Wr(mem, arg + Off.state, TASK_STATE_SUSPENDED))
               ELSE same(mem)
          [] op = "task_resume" ->
               IF arg # NULL /\ st(arg) = TASK_STATE_SUSPENDED
               THEN same(Wr(mem, arg + Off.state, TASK_STATE_READY))
               ELSE same(mem)
          [] op = "task_sleep" ->
               IF current_task = NULL THEN same(mem)
               ELSE same(Wr(Wr(mem, current_task + Off.state,
                               TASK_STATE_SLEEPING),
                            current_task + Off.wake_time,
                            Add32(Field(mem, current_task, "wake_time"), arg)))
          [] op = "task_yield" ->
               IF current_task = NULL THEN same(mem)
               ELSE same(Wr(mem, current_task + Off.state, TASK_STATE_READY))
          [] op = "timer_delay_ms" -> same(mem)

\* the handler is in its first statement: line is that statement's line
Enter(op, arg, line) ==
    /\ run.pc = 0
    /\ run' = [NoCall EXCEPT
                 !.pc = line, !.op = op, !.arg = arg, !.ticks = timer_ticks,
                 !.expect = Uninterrupted(op, arg)]
    /\ UNCHANGED <<mem, heap_ptr, next_task_id, task_list, current_task,
                   timer_ticks, created, ntcb, last>>

\* one statement of the call in progress
Statement ==
    /\ run.pc # 0
    /\ run.pc # ReturnLine[run.op]
    /\ LET k == Exec(Regs)
       IN  /\ mem' = k.mem
           /\ heap_ptr' = k.heap_ptr
           /\ next_task_id' = k.next_task_id
           /\ task_list' = k.task_list
           /\ ntcb' = k.ntcb
           /\ run' = k.run
    /\ UNCHANGED <<current_task, timer_ticks, created, last>>

\* the call in progress returns to its caller, who keeps the handle of a
\* created task
Return ==
    /\ run.pc # 0
    /\ run.pc = ReturnLine[run.op]
    /\ run' = NoCall
    /\ created' = IF run.op = "task_create" /\ run.ret # NULL
                  THEN Append(created, run.ret)
                  ELSE created
    /\ UNCHANGED <<mem, heap_ptr, next_task_id, task_list, current_task,
                   timer_ticks, ntcb, last>>

\* ---------------------------------------------------------- specification

Init ==
    /\ mem = [a \in {} |-> 0]
    /\ heap_ptr = 0
    /\ next_task_id = 1
    /\ task_list = NULL
    /\ current_task = NULL
    /\ timer_ticks = 0
    /\ created = <<>>
    /\ ntcb = 0
    /\ last = Call("boot", NULL, NULL, 0)
    /\ run = NoCall

\* the task arguments callers pass: NULL or a handle task_create returned
TaskArgs == Handles \cup {NULL}

Next ==
    \/ \E c \in CreateInputs :
          task_create(c.name, c.entry_point, c.priority, c.stack_size)
    \/ \E t \in TaskArgs : task_delete(t)
    \/ \E t \in TaskArgs : task_suspend(t)
    \/ \E t \in TaskArgs : task_resume(t)
    \/ \E ms \in SleepInputs : task_sleep(ms)
    \/ task_yield
    \/ \E t \in TaskArgs : task_get_state(t)
    \/ \E t \in TaskArgs : task_get_priority(t)
    \/ \E t \in TaskArgs : task_get_id(t)
    \/ task_get_current
    \/ \E t \in TaskArgs : task_set_current(t)
    \/ timer_tick_callback
    \/ timer_get_ticks

Spec == Init /\ [][Next]_vars

\* The same program with the calls that write the registry run statement by
\* statement: SysTick may fire between any two statements (startup.s line
\* 179), everything else is called from the one thread of kernel_main and so
\* only when no call is in progress.  A call is started only if the run still
\* has room for what it allocates and for the deadline it sets.
IrqNext ==
    \/ \E c \in CreateInputs :
          /\ \/ ntcb < MaxTcbs
             \/ InvalidArgs(c.name, c.entry_point, c.stack_size)
             \/ task_malloc(heap_ptr, TCB_SIZE).ptr = NULL
          /\ Enter("task_create", c, 73)
    \/ \E t \in TaskArgs : Enter("task_delete", t, 139)
    \/ \E t \in TaskArgs : Enter("task_suspend", t, 166)
    \/ \E t \in TaskArgs : Enter("task_resume", t, 179)
    \/ \E ms \in SleepInputs :
          /\ current_task # NULL
                => Field(mem, current_task, "wake_time") + ms <= MaxWake
          /\ Enter("task_sleep", ms, 190)
    \/ Enter("task_yield", NULL, 206)
    \/ Statement
    \/ Return
    \/ \E t \in TaskArgs : run.pc = 0 /\ task_set_current(t)
    \/ timer_tick_callback

IrqSpec == Init /\ [][IrqNext]_vars

\* ---------------------------------------------------------- observations

\* the task list from head, following next; fuel bounds the walk
RECURSIVE ListFrom(_, _, _)
ListFrom(m, head, fuel) ==
    IF head = NULL \/ fuel = 0 THEN {}
    ELSE {head} \cup ListFrom(m, Field(m, head, "next"), fuel - 1)

\* the tasks linked in task_list in memory m with list head head
InList(m, head) ==
    ListFrom(m, head, Len(created) + 1)

\* the id stored in the i-th task that task_create returned
IdOf(i) ==
    Field(mem, created[i], "task_id")

\* the last call was task_create and it returned a task
CreateSucceeded(l) ==
    l.op = "task_create" /\ l.ret # NULL

\* the last call was task_create and it returned NULL
CreateFailed(l) ==
    l.op = "task_create" /\ l.ret = NULL

\* TCB and stack of a request fit in what is left of the arena; a negative
\* stack_size stands for an unsigned size of 2^31 or more, which never fits
ArenaHolds(hp, stack_size) ==
    /\ stack_size >= 0
    /\ stack_size <= HEAP_SIZE
    /\ hp + TCB_SIZE + stack_size <= HEAP_SIZE

QueryOps ==
    {"task_get_state", "task_get_priority", "task_get_id", "task_get_current"}

\* ------------------------------------------------------------------- C1

C2_InvalidCreateChangesNothing ==
    [][(/\ last'.op = "task_create"
        /\ \/ last'.arg.entry_point = NULL
           \/ Lt32(last'.arg.stack_size, TASK_MIN_STACK_SIZE))
       => (last'.ret = NULL /\ UNCHANGED kernel)]_vars

\* such a call has just returned while a task is registered
C2_Witness ==
    /\ CreateFailed(last)
    /\ last.arg.name # NULL
    /\ \/ last.arg.entry_point = NULL
       \/ Lt32(last.arg.stack_size, TASK_MIN_STACK_SIZE)
    /\ task_list # NULL

\* ------------------------------------------------------------------- C3

\* C3: task_create with an empty name, a valid entry point and a valid stack
\* size returns NULL and adds no task
C3_EmptyNameRejected ==
    [][(/\ last'.op = "task_create"
        /\ last'.arg.name # NULL
        /\ Strings[last'.arg.name] = <<>>
        /\ last'.arg.entry_point # NULL
        /\ ~Lt32(last'.arg.stack_size, TASK_MIN_STACK_SIZE))
       => (last'.ret = NULL /\ UNCHANGED <<task_list, created>>)]_vars

\* ------------------------------------------------------------------- C4

\* C4: when what is left of the arena cannot hold the TCB and the requested
\* stack, task_create returns NULL and leaves the task list, the next id and
\* every existing TCB and stack unchanged
C4_OutOfMemoryRejected ==
    [][(/\ last'.op = "task_create"
        /\ ~InvalidArgs(last'.arg.name, last'.arg.entry_point,
                        last'.arg.stack_size)
        /\ ~ArenaHolds(heap_ptr, last'.arg.stack_size))
       => (last'.ret = NULL /\ UNCHANGED <<task_list, next_task_id, mem>>)]_vars

\* ------------------------------------------------------------------- C5

\* C5: after a successful task_create the new task is READY with the
\* requested priority, its wake_time, time_used, context_switches and
\* total_runtime are 0 and it is in the task list; every task that was in the
\* list before is still in it with the state it had
C5_CreatedTaskInitialised ==
    [][CreateSucceeded(last')
       => (/\ Field(mem', last'.ret, "state") = TASK_STATE_READY
           /\ Field(mem', last'.ret, "priority") = last'.arg.priority
           /\ Field(mem', last'.ret, "wake_time") = 0
           /\ Field(mem', last'.ret, "time_used") = 0
           /\ Field(mem', last'.ret, "context_switches") = 0
           /\ Field(mem', last'.ret, "total_runtime") = 0
           /\ last'.ret \in InList(mem', task_list')
           /\ \A t \in InList(mem, task_list) :
                 /\ t \in InList(mem', task_list')
                 /\ Field(mem', t, "state") = Field(mem, t, "state"))]_vars

\* ------------------------------------------------------------------- C6

C7_DeleteFreesArena ==
    [][(/\ CreateSucceeded(last)
        /\ last'.op = "task_delete"
        /\ last'.arg = last.ret)
       => heap_ptr' = last.ret - HEAP_ADDR]_vars

\* ------------------------------------------------------------------- C8

\* C8: task_get_state returns TASK_STATE_INVALID for NULL and for a task on
\* which task_delete has just run, and the state the TCB holds otherwise
C8_GetStateAfterDelete ==
    /\ get_state(NULL) = TASK_STATE_INVALID
    /\ (last.op = "task_delete" /\ last.arg # NULL)
          => get_state(last.arg) = TASK_STATE_INVALID
    /\ last.op = "task_get_state"
          => last.ret = IF last.arg = NULL THEN TASK_STATE_INVALID
                        ELSE Field(mem, last.arg, "state")

\* task_get_state has just returned INVALID for a task that was deleted
C8_Witness ==
    /\ last.op = "task_get_state"
    /\ last.arg # NULL
    /\ last.ret = TASK_STATE_INVALID

\* ------------------------------------------------------------------- C9

\* C9: for a task whose state is INVALID task_get_id returns 0 and
\* task_get_priority returns TASK_PRIORITY_IDLE, as they do for NULL
C9_GettersSentinelWhenTerminated ==
    /\ (last.op = "task_get_id" /\ last.pre = TASK_STATE_INVALID)
          => last.ret = 0
    /\ (last.op = "task_get_priority" /\ last.pre = TASK_STATE_INVALID)
          => last.ret = TASK_PRIORITY_IDLE

\* ------------------------------------------------------------------ C10

\* C10: task_get_state, task_get_priority, task_get_id and task_get_current
\* change nothing: task list, every TCB field, current task, id counter and
\* arena are the same after the call, whatever the handle
C10_QueriesChangeNothing ==
    [][last'.op \in QueryOps => UNCHANGED kernel]_vars

\* a query has just run on a sleeping task whose wake_time has passed
C10_Witness ==
    /\ last.op = "task_get_state"
    /\ last.arg # NULL
    /\ last.ret = TASK_STATE_SLEEPING
    /\ ~Lt32(timer_ticks, Field(mem, last.arg, "wake_time"))

\* ------------------------------------------------------------------ C11

\* C11: INVALID is terminal: a task whose state is INVALID has state INVALID
\* after every step, whichever operation runs, also when it is the current
\* task
C11_TerminatedIsTerminal ==
    [][\A t \in Handles :
          Field(mem, t, "state") = TASK_STATE_INVALID
             => Field(mem', t, "state") = TASK_STATE_INVALID]_vars

\* ------------------------------------------------------------------ C12

\* C12: task_sleep(d) called by the running task, the current task, leaves
\* it SLEEPING with wake_time = timer_ticks + d, the tick counter being the
\* one at the call
C12_SleepRecordsDeadline ==
    [][(last'.op = "task_sleep" /\ current_task # NULL)
       => (/\ Field(mem', current_task, "state") = TASK_STATE_SLEEPING
           /\ Field(mem', current_task, "wake_time")
                 = Add32(timer_ticks, last'.arg))]_vars

\* ------------------------------------------------------------------ C13

\* C13: a SLEEPING task becomes READY only in a timer tick after which the
\* tick counter has reached its wake_time; no other operation takes a task
\* from SLEEPING to READY
C13_SleepingLeavesOnlyByTick ==
    [][\A t \in Handles :
          (/\ Field(mem, t, "state") = TASK_STATE_SLEEPING
           /\ Field(mem', t, "state") = TASK_STATE_READY)
             => (/\ last'.op = "timer_tick_callback"
                 /\ ~Lt32(timer_ticks', Field(mem, t, "wake_time")))]_vars

\* ------------------------------------------------------------------ C14

\* C14: a timer tick moves every SLEEPING task whose wake_time the tick
\* counter has reached to READY and clears its wake_time
C14_TickWakesSleepers ==
    [][last'.op = "timer_tick_callback" /\ timer_ticks' # timer_ticks
       => \A t \in Handles :
             (/\ Field(mem, t, "state") = TASK_STATE_SLEEPING
              /\ ~Lt32(timer_ticks', Field(mem, t, "wake_time")))
                => (/\ Field(mem', t, "state") = TASK_STATE_READY
                    /\ Field(mem', t, "wake_time") = 0)]_vars

\* ------------------------------------------------------------------ C15

\* C15: task_sleep(0) leaves the memory task_yield would have left: the
\* current task READY and nothing else changed
C15_SleepZeroIsYield ==
    [][(last'.op = "task_sleep" /\ last'.arg = 0 /\ current_task # NULL)
       => mem' = Wr(mem, current_task + Off.state, TASK_STATE_READY)]_vars

\* ------------------------------------------------------------------ C16

C17_SuspendReady ==
    [][(/\ last'.op = "task_suspend"
        /\ last'.arg # NULL
        /\ last'.pre = TASK_STATE_READY)
       => Field(mem', last'.arg, "state") = TASK_STATE_SUSPENDED]_vars

\* ------------------------------------------------------------------ C18

\* C18: task_suspend on NULL or on a task that is not RUNNING, and
\* task_resume on NULL or on a task that is not SUSPENDED, change nothing:
\* every TCB, the task list and the current task stay as they were
C18_InvalidSourceStateNoOp ==
    [][(\/ /\ last'.op = "task_suspend"
           /\ (last'.arg = NULL \/ last'.pre # TASK_STATE_RUNNING)
        \/ /\ last'.op = "task_resume"
           /\ (last'.arg = NULL \/ last'.pre # TASK_STATE_SUSPENDED))
       => UNCHANGED kernel]_vars

\* task_suspend has just run on a SLEEPING task that is the current task
C18_Witness ==
    /\ last.op = "task_suspend"
    /\ last.arg # NULL
    /\ last.arg = current_task
    /\ last.pre = TASK_STATE_SLEEPING

\* ------------------------------------------------------------------ C19

\* C19: task_sleep and task_yield leave the current task's state and
\* wake_time unchanged unless its state is RUNNING
C19_SleepYieldOnlyWhenRunning ==
    [][(/\ last'.op \in {"task_sleep", "task_yield"}
        /\ current_task # NULL
        /\ Field(mem, current_task, "state") # TASK_STATE_RUNNING)
       => (/\ Field(mem', current_task, "state")
                 = Field(mem, current_task, "state")
           /\ Field(mem', current_task, "wake_time")
                 = Field(mem, current_task, "wake_time"))]_vars

\* ------------------------------------------------------------------ C20

\* the tasks in the task list whose state is st
TasksInState(st) ==
    {t \in InList(mem, task_list) : Field(mem, t, "state") = st}

\* C20: never two RUNNING tasks, and one RUNNING task whenever some task is
\* READY
C20_ExactlyOneRunning ==
    /\ Cardinality(TasksInState(TASK_STATE_RUNNING)) <= 1
    /\ TasksInState(TASK_STATE_READY) # {}
          => Cardinality(TasksInState(TASK_STATE_RUNNING)) = 1

\* ------------------------------------------------------------------ C21

\* the READY tasks of the task list with head head in memory m
ReadyTasks(m, head) ==
    {t \in InList(m, head) : Field(m, t, "state") = TASK_STATE_READY}

\* the call l is a scheduling point: a tick, or a yield or sleep by a task
SchedulingPoint(l) ==
    \/ l.op = "timer_tick_callback"
    \/ l.op \in {"task_yield", "task_sleep"} /\ current_task # NULL

\* C21: after a tick, a yield or a sleep, if some task is READY then a task
\* is selected as the current task and no READY task has a priority above
\* that of the current task
C21_HighestPrioritySelected ==
    [][(/\ SchedulingPoint(last')
        /\ ReadyTasks(mem', task_list') # {})
       => (/\ current_task' # NULL
           /\ \A t \in ReadyTasks(mem', task_list') :
                 Field(mem', t, "priority")
                    <= Field(mem', current_task', "priority"))]_vars

\* ------------------------------------------------------------------ C22

\* the READY tasks other than the current task that have its priority,
\* when no READY task has a higher one
ReadyPeers ==
    IF current_task = NULL
       \/ \E t \in ReadyTasks(mem, task_list) :
             Field(mem, t, "priority") > Field(mem, current_task, "priority")
    THEN {}
    ELSE {t \in ReadyTasks(mem, task_list) \ {current_task} :
             Field(mem, t, "priority") = Field(mem, current_task, "priority")}

\* C22: round-robin among equal priorities: when the current task yields
\* and READY tasks of its priority wait, with none of a higher priority,
\* the turn passes to one of those tasks
C22_RoundRobinTurnPasses ==
    [][(/\ last'.op = "task_yield"
        /\ ReadyPeers # {})
       => current_task' \in ReadyPeers]_vars

\* ------------------------------------------------------------------ C23

\* C23: when the current task yields and another READY task is in the list,
\* the caller is READY afterwards and a different task is the current task,
\* RUNNING, with its context_switches one higher than before
C23_YieldSwitchesTask ==
    [][(/\ last'.op = "task_yield"
        /\ current_task # NULL
        /\ ReadyTasks(mem, task_list) \ {current_task} # {})
       => (/\ Field(mem', current_task, "state") = TASK_STATE_READY
           /\ current_task' # NULL
           /\ current_task' # current_task
           /\ Field(mem', current_task', "state") = TASK_STATE_RUNNING
           /\ Field(mem', current_task', "context_switches")
                 = Add32(Field(mem, current_task', "context_switches"), 1))]_vars

\* ------------------------------------------------------------------ C24

\* address a lies in the size bytes from start, addresses and sizes being
\* 32-bit: (a - start) mod 2^32 < size
InRegion(a, start, size) ==
    Lt32(Add32(a, -start), size)

\* two regions share a byte: the start of one lies in the other
Overlap(s1, n1, s2, n2) ==
    InRegion(s1, s2, n2) \/ InRegion(s2, s1, n1)

\* C24: the stack region task_create hands to a new task, stack_size bytes
\* from the address after its TCB, shares no byte with any TCB nor with the
\* stack region of a task created before, and no step changes the
\* stack_start or stack_size of a task created before
C24_StacksNeverAlias ==
    [][/\ CreateSucceeded(last')
          => LET stack == last'.ret + TCB_SIZE
                 size == last'.arg.stack_size
             IN  /\ \A t \in Handles \cup {last'.ret} :
                       ~Overlap(stack, size, t, TCB_SIZE)
                 /\ \A t \in Handles :
                       ~Overlap(stack, size, Field(mem, t, "stack_start"),
                                Field(mem, t, "stack_size"))
       /\ \A t \in Handles :
             /\ Field(mem', t, "stack_start") = Field(mem, t, "stack_start")
             /\ Field(mem', t, "stack_size") = Field(mem, t, "stack_size")]_vars

\* ------------------------------------------------------------------ C25

C26_TicksCountInterrupts ==
    /\ timer_ticks = 0
    /\ [][/\ IF last'.op = "timer_tick_callback"
             THEN timer_ticks' = Add32(timer_ticks, 1)
             ELSE timer_ticks' = timer_ticks
          /\ last'.op = "timer_get_ticks" => last'.ret = timer_ticks]_vars

\* timer_get_ticks has just returned a count that is not 0
C26_Witness ==
    /\ last.op = "timer_get_ticks"
    /\ last.ret = MaxTicks
    /\ last.ret # 0

\* ------------------------------------------------------------------ C27

IsExcReturn(v) ==
    v < 0 /\ v >= -268435456

\* C28: after a successful task_create the saved stack pointer points to 8
\* words that lie between stack_start and stack_start + stack_size as the
\* TCB holds them; the words of R0..R3 and R12 are 0, the PC word is the
\* entry point, and the LR word is the address of code, not 0 and not an
\* EXC_RETURN code
C28_InitialFrame ==
    [][CreateSucceeded(last')
       => LET tcb == last'.ret
              sp == Field(mem', tcb, "stack_ptr")
              lo == Field(mem', tcb, "stack_start")
              size == Field(mem', tcb, "stack_size")
          IN  /\ InRegion(sp, lo, size)
              /\ InRegion(Add32(sp, 28), lo, size)
              /\ ~Lt32(Add32(sp, 28), sp)
              /\ \A k \in 0..4 : Rd(mem', Add32(sp, 4 * k)) = 0
              /\ Rd(mem', Add32(sp, 24)) = last'.arg.entry_point
              /\ Rd(mem', Add32(sp, 20)) # 0
              /\ ~IsExcReturn(Rd(mem', Add32(sp, 20)))]_vars

\* ------------------------------------------------------------------ C29

\* C29: a timer tick between any two statements of task_create, task_delete,
\* task_suspend, task_resume, task_sleep or task_yield writes no memory cell,
\* not the allocator, the id counter, the task list or the current task and
\* does not move the call in progress; no statement of a call changes the
\* current task; and when the call returns, memory, allocator, id counter,
\* task list and return value are what the call, made uninterrupted from the
\* state it started in, leaves
C29_TickLeavesCallsWhole ==
    [][/\ timer_ticks' # timer_ticks
            => UNCHANGED <<mem, heap_ptr, next_task_id, task_list,
                           current_task, created, run>>
       /\ run.pc # 0 => current_task' = current_task
       /\ (run.pc # 0 /\ run'.pc = 0)
            => Written(mem', heap_ptr', next_task_id', task_list', run.ret)
                 = run.expect]_vars

\* task_delete of a task that was not the head has unlinked it and is at its
\* return, and a tick arrived after the call had started
C29_Witness ==
    /\ run.op = "task_delete"
    /\ run.pc = ReturnLine.task_delete
    /\ run.prev # NULL
    /\ Field(mem, run.arg, "state") = TASK_STATE_INVALID
    /\ timer_ticks # run.ticks

\* ------------------------------------------------------------------ C30

\* every store of task_create(c) made now goes to task_heap: the frame of a
\* wrapping size lies below the stack, and below the array unless enough of
\* the arena is in use
FrameInArena(c) ==
    LET a1 == task_malloc(heap_ptr, TCB_SIZE)
        a2 == task_malloc(a1.heap_ptr, c.stack_size)
        top == Add32(Add32(a2.ptr, 4 * (c.stack_size \div 4)), -4)
    IN  (~InvalidArgs(c.name, c.entry_point, c.stack_size)
         /\ a1.ptr # NULL /\ a2.ptr # NULL)
           => /\ top - 28 >= HEAP_ADDR
              /\ top + 4 <= HEAP_ADDR + HEAP_SIZE

\* Sequences of task_create and task_delete alone.  What a store outside
\* task_heap hits and what a load through a next field that is no TCB
\* returns is not defined by task.c, so a create that would store there and
\* a delete made when the list leads out of the TCBs are not followed.
ListNext ==
    \/ \E c \in ListCreateInputs :
          /\ FrameInArena(c)
          /\ task_create(c.name, c.entry_point, c.priority, c.stack_size)
    \/ \E t \in TaskArgs :
          /\ InList(mem, task_list) \subseteq Handles
          /\ task_delete(t)

ListSpec == Init /\ [][ListNext]_vars

\* the task list in order: head, head->next, ...; fuel bounds the walk
RECURSIVE ListSeq(_, _, _)
ListSeq(m, head, fuel) ==
    IF head = NULL \/ fuel = 0 THEN <<>>
    ELSE <<head>> \o ListSeq(m, Field(m, head, "next"), fuel - 1)

\* s without its elements equal to t
Without(s, t) ==
    LET keep(x) == x # t
    IN  SelectSeq(s, keep)

\* C30: the task list is empty at boot; a successful task_create puts the
\* new task in front of the list as it was; task_delete(t) leaves the list
\* as it was without t, the others in their order, so deleting a task not in
\* the list changes nothing; a failed create and task_delete(NULL) leave it
\* alone; and the list always ends after at most as many nodes as tasks
\* were created, no task twice in it, every node a created task
C30_ListHoldsLiveTasks ==
    /\ task_list = NULL
    /\ [][LET before == ListSeq(mem, task_list, Len(created) + 1)
              after == ListSeq(mem', task_list', Len(created') + 1)
          IN  /\ CreateSucceeded(last') => after = <<last'.ret>> \o before
              /\ CreateFailed(last') => after = before
              /\ last'.op = "task_delete"
                    => after = Without(before, last'.arg)
              /\ Len(after) <= Len(created')
              /\ \A i, j \in 1..Len(after) : after[i] = after[j] => i = j
              /\ \A i \in 1..Len(after) : after[i] \in Handles']_vars

\* ------------------------------------------------------------------ C31

\* the size bytes from arena offset off lie inside task_heap, size taken as
\* the unsigned 32-bit number it is
InsideArena(off, size) ==
    /\ off \in 0..HEAP_SIZE
    /\ size \in 0..(HEAP_SIZE - off)

\* C31: heap_ptr never exceeds 32768; the TCB and the stack a successful
\* task_create was handed lie inside the arena, whatever 32-bit value
\* stack_size is; and a task_create whose stack does not fit behind its TCB
\* returns NULL, also when heap_ptr + stack_size wraps
C31_RegionsInsideArena ==
    [][/\ heap_ptr' \in 0..HEAP_SIZE
       /\ CreateSucceeded(last')
             => /\ InsideArena(last'.ret - HEAP_ADDR, TCB_SIZE)
                /\ InsideArena(last'.ret - HEAP_ADDR + TCB_SIZE,
                               last'.arg.stack_size)
       /\ (/\ last'.op = "task_create"
           /\ ~InsideArena(heap_ptr + TCB_SIZE, last'.arg.stack_size))
             => last'.ret = NULL]_vars

\* ------------------------------------------------------------------ C32

\* C32: a task_create that returns NULL leaves heap_ptr where it was, also
\* when its TCB had been allocated before its stack was refused
C32_FailedCreateKeepsArena ==
    [][CreateFailed(last') => heap_ptr' = heap_ptr]_vars

\* ------------------------------------------------------------------ C33

\* C33: the current task, which task_get_current returns, is NULL or a task
\* whose state is not TASK_STATE_INVALID
C33_CurrentNeverTerminated ==
    current_task # NULL
        => Field(mem, current_task, "state") # TASK_STATE_INVALID

\* ------------------------------------------------------------------ C34

\* C34: every task in the task list has a priority from TASK_PRIORITY_IDLE
\* (0) to TASK_PRIORITY_CRITICAL (4)
C34_PriorityInRange ==
    \A t \in InList(mem, task_list) \cap Handles :
        Field(mem, t, "priority")
            \in TASK_PRIORITY_IDLE..TASK_PRIORITY_CRITICAL

\* ------------------------------------------------------------------ C35

MUL_WRAP_MS ==
    2 * (INT32_MAX \div TIMER_DEFAULT_FREQUENCY_HZ) + 2

\* the calls of timer_delay_ms made
DelayInputs == {0, 1, 2, MUL_WRAP_MS}

\* the values of timer_ticks at which the runs with a delay start: 0 as at
\* boot, and 0xFFFFFFFE and 0xFFFFFFFF as after 49 days of ticks at 1000 Hz
DelayStartTicks == {0, -2, -1}

DelayInit ==
    /\ mem = [a \in {} |-> 0]
    /\ heap_ptr = 0
    /\ next_task_id = 1
    /\ task_list = NULL
    /\ current_task = NULL
    /\ timer_ticks \in DelayStartTicks
    /\ created = <<>>
    /\ ntcb = 0
    /\ last = Call("boot", NULL, NULL, 0)
    /\ run = NoCall

\* timer_delay_ms statement by statement, with SysTick firing between any
\* two statements
DelayNext ==
    \/ \E ms \in DelayInputs : Enter("timer_delay_ms", ms, 86)
    \/ Statement
    \/ Return
    \/ timer_tick_callback

DelaySpec == DelayInit /\ [][DelayNext]_vars

\* the ticks timer_delay_ms(ms) is to wait at 1000 Hz: ms * 1000 / 1000,
\* not reduced modulo 2^32
RequiredTicks(ms) ==
    ms

\* C36: when timer_delay_ms(ms) returns, the tick counter has advanced by at
\* least ms * 1000 / 1000 ticks since the call (fewer than 2^32 ticks occur
\* in a run, so the difference of the counters modulo 2^32 is their number)
C36_DelayWaitsLongEnough ==
    [][(run.op = "timer_delay_ms" /\ run.pc # 0 /\ run'.pc = 0)
       => ~Lt32(Add32(timer_ticks, -run.ticks), RequiredTicks(run.arg))]_vars

====
